---- MODULE Spec2Model ----
(***************************************************************************)
(* Model of the smart-home record store and reporting service (app.py).   *)
(*                                                                         *)
(* The state is the content of the five tables of smart_home.db plus the   *)
(* response to the last request.  Each request handler is one action: a    *)
(* request opens its own session, runs, commits (creates only) and closes, *)
(* and SQLite serialises writers, so a handler is atomic.                  *)
(*                                                                         *)
(* The handlers are modelled as written below the module's load-time       *)
(* statements: `Column(float)` (line 24) is read as a floating-point       *)
(* column and `Field` (line 57, never imported) as pydantic's Field.       *)
(* Responses are modelled up to the order and encoding of JSON.            *)
(***************************************************************************)
EXTENDS Integers, Sequences, FiniteSets

(* ---------------- bounds of the model ---------------- *)
MaxUsers == 2
MaxDevices == 2
MaxEvents == 1
MaxFeedback == 1
MaxUsage == 2

(* ---------------- input domains ---------------- *)
UserNames == {"ann"}
Emails == {"a@x", "b@x"}
Passwords == {"pw"}
Areas == {-5, 0, 120, 150}
DeviceNames == {"lamp", "tv"}
PayloadDeviceNames == {"lamp"}
DeviceTypes == {"light"}
EventTypes == {"alarm"}
Descriptions == {"door"}
FeedbackTexts == {"good"}
UsageTimes == {"morning"}
Durations == {10, 15}
RefIds == {1, 2}
LookupIds == {1, 2, 3}

(* order of the strings used as group keys *)
NameRank == [n \in DeviceNames |-> IF n = "lamp" THEN 1 ELSE 2]

VARIABLES users, devices, security_events, feedback, device_usage, resp

store == <<users, devices, security_events, feedback, device_usage>>
vars == <<users, devices, security_events, feedback, device_usage, resp>>

(* ---------------- schema ---------------- *)
UserCreateFields == {"name", "email", "password", "house_area"}
DeviceCreateFields == {"name", "type", "owner_id"}
SecurityEventCreateFields == {"event_type", "description", "device_id"}
FeedbackCreateFields == {"user_id", "feedback_text"}
DeviceUsageColumns ==
    {"id", "device_id", "user_id", "usage_start", "usage_end", "duration"}

CreateOps == {"create_user", "create_device", "create_security_event",
              "create_feedback", "create_device_usage"}
ReadOps == {"read_users", "read_devices", "read_security_events",
            "read_feedback", "get_user_house_area",
            "get_all_users_house_areas", "get_device_usage_summary",
            "get_device_usage_time_distribution",
            "analyze_usage_by_house_area"}

(* ---------------- helpers ---------------- *)
Ids(table) == {table[i].id : i \in 1..Len(table)}

MaxOf(S) == CHOOSE m \in S : \A x \in S : x <= m

(* INTEGER PRIMARY KEY: SQLite assigns the largest rowid in use plus one *)
NextIdReuse(table) == IF table = <<>> THEN 1 ELSE MaxOf(Ids(table))
NextId(table) == IF table = <<>> THEN 1 ELSE MaxOf(Ids(table)) + 1

(* response_model=...: the response carries the declared fields only,      *)
(* read from the attributes of the returned row                            *)
Project(row, fields) == [f \in fields |-> row[f]]

(* the record of the last request; repeat compares it with the one before *)
Respond(op, arg, status, error, body) ==
    resp' = [op |-> op, arg |-> arg, status |-> status, error |-> error,
             body |-> body,
             repeat |-> IF op \in ReadOps /\ resp.op = op /\ resp.arg = arg
                        THEN IF resp.status = status /\ resp.body = body
                             THEN "same" ELSE "differs"
                        ELSE "first"]

(* UserCreate: house_area: float = Field(..., gt=0) *)
UserCreateValidGe(p) == p.house_area >= 0
UserCreateValid(p) == p.house_area > 0

(* email = Column(String, unique=True): the commit raises IntegrityError *)
EmailUniqueOff(table, email) == TRUE
EmailUnique(table, email) == \A i \in 1..Len(table) : table[i].email # email

(* ForeignKey(...): SQLite checks foreign keys only under                  *)
(* PRAGMA foreign_keys=ON, which create_engine(DATABASE_URL, ...) never    *)
(* issues; no handler looks the referenced row up.                         *)
ForeignKeysOn == FALSE
ForeignKeyHolds(table, ref) == ForeignKeysOn => ref \in Ids(table)

(* ---------------- create handlers ---------------- *)
CreateUser ==
    \E n \in UserNames, e \in Emails, pw \in Passwords, a \in Areas :
      LET p == [name |-> n, email |-> e, password |-> pw, house_area |-> a]
          row == [id |-> NextId(users), name |-> p.name, email |-> p.email,
                  password |-> p.password, house_area |-> p.house_area]
      IN  IF ~UserCreateValid(p)
          THEN /\ Respond("create_user", p, 422, "ValidationError", <<>>)
               /\ UNCHANGED store
          ELSE IF ~EmailUnique(users, p.email)
          THEN /\ Respond("create_user", p, 500, "IntegrityError", <<>>)
               /\ UNCHANGED store
          ELSE /\ Len(users) < MaxUsers
               /\ users' = Append(users, row)
               /\ Respond("create_user", p, 200, "",
                          <<Project(row, UserCreateFields)>>)
               /\ UNCHANGED <<devices, security_events, feedback, device_usage>>

CreateDevice ==
    \E n \in PayloadDeviceNames, t \in DeviceTypes, o \in RefIds :
      LET p == [name |-> n, type |-> t, owner_id |-> o]
          row == [id |-> NextId(devices), name |-> p.name, type |-> p.type,
                  owner_id |-> p.owner_id]
      IN  IF ~ForeignKeyHolds(users, p.owner_id)
          THEN /\ Respond("create_device", p, 500, "IntegrityError", <<>>)
               /\ UNCHANGED store
          ELSE /\ Len(devices) < MaxDevices
               /\ devices' = Append(devices, row)
               /\ Respond("create_device", p, 200, "",
                          <<Project(row, DeviceCreateFields)>>)
               /\ UNCHANGED <<users, security_events, feedback, device_usage>>

CreateSecurityEvent ==
    \E t \in EventTypes, ds \in Descriptions, d \in RefIds :
      LET p == [event_type |-> t, description |-> ds, device_id |-> d]
          row == [id |-> NextId(security_events), event_type |-> p.event_type,
                  description |-> p.description, device_id |-> p.device_id]
      IN  IF ~ForeignKeyHolds(devices, p.device_id)
          THEN /\ Respond("create_security_event", p, 500, "IntegrityError",
                          <<>>)
               /\ UNCHANGED store
          ELSE /\ Len(security_events) < MaxEvents
               /\ security_events' = Append(security_events, row)
               /\ Respond("create_security_event", p, 200, "",
                          <<Project(row, SecurityEventCreateFields)>>)
               /\ UNCHANGED <<users, devices, feedback, device_usage>>

CreateFeedback ==
    \E u \in RefIds, t \in FeedbackTexts :
      LET p == [user_id |-> u, feedback_text |-> t]
          row == [id |-> NextId(feedback), user_id |-> p.user_id,
                  feedback_text |-> p.feedback_text]
      IN  IF ~ForeignKeyHolds(users, p.user_id)
          THEN /\ Respond("create_feedback", p, 500, "IntegrityError", <<>>)
               /\ UNCHANGED store
          ELSE /\ Len(feedback) < MaxFeedback
               /\ feedback' = Append(feedback, row)
               /\ Respond("create_feedback", p, 200, "",
                          <<Project(row, FeedbackCreateFields)>>)
               /\ UNCHANGED <<users, devices, security_events, device_usage>>

(* DeviceUsage(device_id=, usage_time=, duration=): usage_time is no       *)
(* attribute of DeviceUsage, so the constructor raises TypeError before    *)
(* the session is touched.                                                 *)
CreateDeviceUsage ==
    \E d \in RefIds, t \in UsageTimes, du \in Durations :
      LET p == [device_id |-> d, usage_time |-> t, duration |-> du]
      IN  /\ ~(DOMAIN p \subseteq DeviceUsageColumns)
          /\ Respond("create_device_usage", p, 500, "TypeError", <<>>)
          /\ UNCHANGED store

(* ---------------- list handlers ---------------- *)
ListOf(table, fields) == [i \in 1..Len(table) |-> Project(table[i], fields)]

(* a read that also removes what it returned *)
ReadUsersConsume ==
    /\ Respond("read_users", 0, 200, "", ListOf(users, UserCreateFields))
    /\ users' = <<>>
    /\ UNCHANGED <<devices, security_events, feedback, device_usage>>

ReadUsers ==
    /\ Respond("read_users", 0, 200, "", ListOf(users, UserCreateFields))
    /\ UNCHANGED store

ReadDevices ==
    /\ Respond("read_devices", 0, 200, "", ListOf(devices, DeviceCreateFields))
    /\ UNCHANGED store

ReadSecurityEvents ==
    /\ Respond("read_security_events", 0, 200, "",
               ListOf(security_events, SecurityEventCreateFields))
    /\ UNCHANGED store

ReadFeedback ==
    /\ Respond("read_feedback", 0, 200, "",
               ListOf(feedback, FeedbackCreateFields))
    /\ UNCHANGED store

(* ---------------- house-area lookups ---------------- *)
MinOf(S) == CHOOSE m \in S : \A x \in S : m <= x

UserHouseAreaNoFilter(table, user_id) ==
    LET m == 1..Len(table)
    IN  IF m = {}
        THEN [status |-> 404, error |-> "User not found", body |-> <<>>]
        ELSE [status |-> 200, error |-> "",
              body |-> <<[user_id |-> user_id,
                          house_area |-> table[MinOf(m)].house_area]>>]

(* db.query(User).filter(User.id == user_id).first(), 404 when None *)
UserHouseArea(table, user_id) ==
    LET m == {i \in 1..Len(table) : table[i].id = user_id}
    IN  IF m = {}
        THEN [status |-> 404, error |-> "User not found", body |-> <<>>]
        ELSE [status |-> 200, error |-> "",
              body |-> <<[user_id |-> user_id,
                          house_area |-> table[MinOf(m)].house_area]>>]

GetUserHouseArea ==
    \E user_id \in LookupIds :
      LET r == UserHouseArea(users, user_id)
      IN  /\ Respond("get_user_house_area", user_id, r.status, r.error, r.body)
          /\ UNCHANGED store

GetAllUsersHouseAreas ==
    /\ Respond("get_all_users_house_areas", 0, 200, "",
               ListOf(users, {"id", "name", "house_area"}))
    /\ UNCHANGED store

(* ---------------- reports ---------------- *)
RECURSIVE SumDuration(_, _)
SumDuration(J, usage) ==
    IF J = {} THEN 0
    ELSE LET p == CHOOSE q \in J : TRUE
         IN  usage[p.u].duration + SumDuration(J \ {p}, usage)

RECURSIVE SortInts(_)
SortInts(S) ==
    IF S = {} THEN <<>>
    ELSE LET m == MinOf(S) IN <<m>> \o SortInts(S \ {m})

(* .join(DeviceUsage, Device.id == DeviceUsage.device_id) *)
JoinDeviceUsage(devs, usage) ==
    {p \in [d : 1..Len(devs), u : 1..Len(usage)] :
        devs[p.d].id = usage[p.u].device_id}

SummaryRows(keys, devs, usage) ==
    LET J == JoinDeviceUsage(devs, usage)
        G(k) == {p \in J : devs[p.d].id = k}
        NameOf(k) == devs[CHOOSE i \in 1..Len(devs) : devs[i].id = k].name
        ks == SortInts(keys)
    IN  [n \in 1..Len(ks) |->
            [device_name |-> NameOf(ks[n]),
             usage_count |-> Cardinality(G(ks[n])),
             total_duration |-> SumDuration(G(ks[n]), usage)]]

(* an outer join: every device is a group *)
UsageSummaryOuter(devs, usage) == SummaryRows(Ids(devs), devs, usage)

(* join, group_by(Device.id): name, count(DeviceUsage.id), sum(duration) *)
UsageSummary(devs, usage) ==
    SummaryRows({devs[p.d].id : p \in JoinDeviceUsage(devs, usage)},
                devs, usage)

GetDeviceUsageSummary ==
    /\ Respond("get_device_usage_summary", 0, 200, "",
               UsageSummary(devices, device_usage))
    /\ UNCHANGED store

(* DeviceUsage.usage_time is no attribute of DeviceUsage: building the     *)
(* query raises AttributeError.                                            *)
GetDeviceUsageTimeDistribution ==
    /\ "usage_time" \notin DeviceUsageColumns
    /\ Respond("get_device_usage_time_distribution", 0, 500,
               "AttributeError", <<>>)
    /\ UNCHANGED store

RECURSIVE Gcd(_, _)
Gcd(a, b) == IF b = 0 THEN a ELSE Gcd(b, a % b)

(* func.avg: the quotient as a real number, kept as a reduced fraction *)
AvgFloor(s, n) == [num |-> s \div n, den |-> 1]
Avg(s, n) == LET g == Gcd(s, n) IN [num |-> s \div g, den |-> n \div g]

(* User join Device on owner_id join DeviceUsage on device_id *)
JoinUserDeviceUsage(us, devs, usage) ==
    {p \in [o : 1..Len(us), d : 1..Len(devs), u : 1..Len(usage)] :
        /\ devs[p.d].owner_id = us[p.o].id
        /\ devs[p.d].id = usage[p.u].device_id}

KeyLeq(a, b) ==
    \/ a[1] < b[1]
    \/ a[1] = b[1] /\ NameRank[a[2]] <= NameRank[b[2]]

RECURSIVE SortKeys(_)
SortKeys(S) ==
    IF S = {} THEN <<>>
    ELSE LET m == CHOOSE x \in S : \A y \in S : KeyLeq(x, y)
         IN  <<m>> \o SortKeys(S \ {m})

(* group_by(User.house_area, Device.name): count(DeviceUsage.id), avg(duration) *)
UsageByHouseArea(us, devs, usage) ==
    LET J == JoinUserDeviceUsage(us, devs, usage)
        KeyOf(p) == <<us[p.o].house_area, devs[p.d].name>>
        G(k) == {p \in J : KeyOf(p) = k}
        ks == SortKeys({KeyOf(p) : p \in J})
    IN  [n \in 1..Len(ks) |->
            [house_area |-> ks[n][1],
             device_name |-> ks[n][2],
             usage_count |-> Cardinality(G(ks[n])),
             avg_duration |-> Avg(SumDuration(G(ks[n]), usage),
                                  Cardinality(G(ks[n])))]]

AnalyzeUsageByHouseArea ==
    /\ Respond("analyze_usage_by_house_area", 0, 200, "",
               UsageByHouseArea(users, devices, device_usage))
    /\ UNCHANGED store

Init ==
    /\ users = <<>>
    /\ devices = <<>>
    /\ security_events = <<>>
    /\ feedback = <<>>
    /\ device_usage = <<>>
    /\ resp = [op |-> "none", arg |-> 0, status |-> 0, error |-> "",
               body |-> <<>>, repeat |-> "first"]

Next ==
    \/ CreateUser
    \/ CreateDevice
    \/ CreateSecurityEvent
    \/ CreateFeedback
    \/ CreateDeviceUsage
    \/ ReadUsers
    \/ ReadDevices
    \/ ReadSecurityEvents
    \/ ReadFeedback
    \/ GetUserHouseArea
    \/ GetAllUsersHouseAreas
    \/ GetDeviceUsageSummary
    \/ GetDeviceUsageTimeDistribution
    \/ AnalyzeUsageByHouseArea

Spec == Init /\ [][Next]_vars

(* ---------------- the reports over any store content ---------------- *)
SeqsUpTo(S, n) == UNION {[1..k -> S] : k \in 0..n}

(* rows as the store holds them: identities 1, 2, ... in insertion order *)
WithIds(t) == [i \in 1..Len(t) |-> [f \in DOMAIN t[i] \cup {"id"} |->
                                      IF f = "id" THEN i ELSE t[i][f]]]

StoredUser(e, a) ==
    [name |-> "ann", email |-> e, password |-> "pw", house_area |-> a]

UserTables ==
    {WithIds(t) : t \in {<<>>,
                         <<StoredUser("a@x", 120)>>,
                         <<StoredUser("a@x", 120), StoredUser("b@x", 120)>>,
                         <<StoredUser("a@x", 120), StoredUser("b@x", 150)>>}}

DeviceTables ==
    {WithIds(t) : t \in SeqsUpTo([name : DeviceNames, type : DeviceTypes,
                                  owner_id : RefIds], MaxDevices)}

DeviceUsageTables ==
    {WithIds(t) : t \in SeqsUpTo([device_id : RefIds, user_id : {1},
                                  usage_start : {"t0"}, usage_end : {"t1"},
                                  duration : Durations], MaxUsage)}

InitReports ==
    /\ users \in UserTables
    /\ devices \in DeviceTables
    /\ security_events = <<>>
    /\ feedback = <<>>
    /\ device_usage \in DeviceUsageTables
    /\ resp = [op |-> "none", arg |-> 0, status |-> 0, error |-> "",
               body |-> <<>>, repeat |-> "first"]

NextReports ==
    \/ GetDeviceUsageSummary
    \/ AnalyzeUsageByHouseArea

SpecReports == InitReports /\ [][NextReports]_vars

(* ======================= properties ======================= *)
(* the table a create handler writes, as an index into store *)
TableIndex(op) ==
    CASE op = "create_user" -> 1
      [] op = "create_device" -> 2
      [] op = "create_security_event" -> 3
      [] op = "create_feedback" -> 4
      [] op = "create_device_usage" -> 5

Last(t) == t[Len(t)]

Holds(table, p) ==
    \E i \in 1..Len(table) : \A f \in DOMAIN p :
        f \in DOMAIN table[i] /\ table[i][f] = p[f]

(* C1: for each of the five entity types, a create with a valid payload    *)
(* (well-typed, house_area > 0, email not yet stored) returns a record     *)
(* whose fields equal the submitted ones, and the entity's table then      *)
(* holds a row with those fields.                                          *)
C1_CreateReturnsSubmitted ==
    (resp.op \in CreateOps
        /\ resp.error \notin {"ValidationError", "IntegrityError"})
    => /\ resp.status = 200
       /\ resp.body = <<resp.arg>>
       /\ Holds(store[TableIndex(resp.op)], resp.arg)

EmailsDistinct ==
    \A i, j \in 1..Len(users) : i # j => users[i].email # users[j].email

DuplicateEmailRejected ==
    (resp'.op = "create_user"
        /\ \E i \in 1..Len(users) : users[i].email = resp'.arg.email)
    => /\ resp'.status # 200
       /\ resp'.body = <<>>
       /\ UserCreateValid(resp'.arg) => resp'.error = "IntegrityError"
       /\ store' = store

(* C2: no two stored Users share an email; a create-user request whose     *)
(* email is already stored fails (with the store's IntegrityError when the *)
(* payload is otherwise valid) and leaves every stored row as it was.      *)
C2_UniqueEmail == [](EmailsDistinct) /\ [][DuplicateEmailRejected]_vars

C2_Witness ==
    /\ resp.op = "create_user"
    /\ resp.error = "IntegrityError"
    /\ Len(users) = 2

NonPositiveAreaRejected ==
    (resp'.op = "create_user" /\ resp'.arg.house_area <= 0)
    => /\ resp'.status = 422
       /\ resp'.error = "ValidationError"
       /\ store' = store

PositiveAreaAccepted ==
    (resp'.op = "create_user" /\ resp'.arg.house_area > 0
        /\ \A i \in 1..Len(users) : users[i].email # resp'.arg.email)
    => /\ resp'.status = 200
       /\ Len(users') = Len(users) + 1
       /\ Holds(<<Last(users')>>, resp'.arg)

(* C3: a create-user request with house_area <= 0 fails with a             *)
(* ValidationError and the store is unchanged; with house_area > 0 and a   *)
(* fresh email it succeeds; every stored User has house_area > 0.          *)
C3_PositiveHouseArea ==
    /\ [](\A i \in 1..Len(users) : users[i].house_area > 0)
    /\ [][NonPositiveAreaRejected /\ PositiveAreaAccepted]_vars

C3_Witness ==
    /\ resp.op = "create_user"
    /\ resp.error = "ValidationError"
    /\ resp.arg.house_area = 0
    /\ Len(users) = 1

(* C4: the house-area lookup for identity u answers 404 exactly when no    *)
(* stored User has identity u; otherwise it answers u paired with that     *)
(* User's stored house_area; a success is never empty.                     *)
C4_HouseAreaLookup ==
    resp.op = "get_user_house_area"
    => /\ resp.status \in {200, 404}
       /\ resp.status = 404 <=> resp.arg \notin Ids(users)
       /\ resp.status = 200 => Len(resp.body) = 1
       /\ \A i \in 1..Len(users) :
            users[i].id = resp.arg
            => resp.body = <<[user_id |-> resp.arg,
                              house_area |-> users[i].house_area]>>

C4_Witness ==
    /\ resp.op = "get_user_house_area"
    /\ resp.status = 200
    /\ resp.arg = 2
    /\ Len(users) = 2
    /\ users[1].house_area # users[2].house_area

(* usage records of the device stored at index i *)
UsageOf(i) ==
    {j \in 1..Len(device_usage) : device_usage[j].device_id = devices[i].id}

RECURSIVE TotalDuration(_)
TotalDuration(S) ==
    IF S = {} THEN 0
    ELSE LET j == CHOOSE x \in S : TRUE
         IN  device_usage[j].duration + TotalDuration(S \ {j})

SummaryRowOf(i) ==
    [device_name |-> devices[i].name,
     usage_count |-> Cardinality(UsageOf(i)),
     total_duration |-> TotalDuration(UsageOf(i))]

(* C5: the usage summary has exactly one row per Device with at least one  *)
(* DeviceUsage record, carrying the number of those records and the sum of *)
(* their durations; a Device without usage has no row; Devices of the same *)
(* name have separate rows.                                                *)
C5_UsageSummary ==
    resp.op = "get_device_usage_summary"
    => LET used == {i \in 1..Len(devices) : UsageOf(i) # {}}
       IN  /\ resp.status = 200
           /\ Len(resp.body) = Cardinality(used)
           /\ \A i \in used :
                Cardinality({n \in 1..Len(resp.body) :
                                resp.body[n] = SummaryRowOf(i)})
                = Cardinality({k \in used : SummaryRowOf(k) = SummaryRowOf(i)})

C5_Witness ==
    /\ resp.op = "get_device_usage_summary"
    /\ Len(devices) = 2
    /\ devices[1].name = devices[2].name
    /\ UsageOf(1) = {}
    /\ Len(resp.body) = 1
    /\ resp.body[1].usage_count = 2
    /\ resp.body[1].total_duration = 25

(* usage records whose device is owned by a User of house_area a and is    *)
(* named n                                                                 *)
UsageIn(a, n) ==
    {j \in 1..Len(device_usage) :
        \E i \in 1..Len(devices), h \in 1..Len(users) :
            /\ devices[i].id = device_usage[j].device_id
            /\ users[h].id = devices[i].owner_id
            /\ users[h].house_area = a
            /\ devices[i].name = n}

(* C6: the usage-by-house-area report has exactly one row per (house_area  *)
(* of the owner, device name) pair with at least one DeviceUsage record;   *)
(* its usage_count is the number of those records and its avg_duration     *)
(* their total duration divided by that number; Users of equal house_area  *)
(* are merged.                                                             *)
C6_UsageByHouseArea ==
    resp.op = "analyze_usage_by_house_area"
    => LET areas == {users[h].house_area : h \in 1..Len(users)}
           pairs == {k \in areas \X DeviceNames : UsageIn(k[1], k[2]) # {}}
           RowsOf(k) == {n \in 1..Len(resp.body) :
                            /\ resp.body[n].house_area = k[1]
                            /\ resp.body[n].device_name = k[2]}
       IN  /\ resp.status = 200
           /\ Len(resp.body) = Cardinality(pairs)
           /\ \A k \in pairs :
                /\ Cardinality(RowsOf(k)) = 1
                /\ \A n \in RowsOf(k) :
                     /\ resp.body[n].usage_count
                          = Cardinality(UsageIn(k[1], k[2]))
                     /\ resp.body[n].avg_duration.den > 0
                     /\ resp.body[n].avg_duration.num
                            * Cardinality(UsageIn(k[1], k[2]))
                          = TotalDuration(UsageIn(k[1], k[2]))
                            * resp.body[n].avg_duration.den

C6_Witness ==
    /\ resp.op = "analyze_usage_by_house_area"
    /\ Len(users) = 2
    /\ users[1].house_area = users[2].house_area
    /\ Len(devices) = 2
    /\ devices[1].owner_id = 1
    /\ devices[2].owner_id = 2
    /\ devices[1].name = devices[2].name
    /\ Len(resp.body) = 1
    /\ resp.body[1].usage_count = 2
    /\ resp.body[1].avg_duration = [num |-> 25, den |-> 2]

(* C7: a request to a read endpoint leaves every stored row unchanged, and *)
(* a read endpoint called twice in a row (no request in between) answers   *)
(* the same both times.                                                    *)
C7_ReadsAreReadOnly ==
    /\ [][resp'.op \in ReadOps => store' = store]_vars
    /\ [](resp.repeat # "differs")

C7_Witness ==
    /\ resp.op = "read_users"
    /\ resp.repeat = "same"
    /\ Len(resp.body) = 2

IdsDistinct(table) ==
    \A i, j \in 1..Len(table) : i # j => table[i].id # table[j].id

FreshIdentity(k) ==
    store'[k] # store[k]
    => /\ Len(store'[k]) = Len(store[k]) + 1
       /\ SubSeq(store'[k], 1, Len(store[k])) = store[k]
       /\ \A x \in Ids(store[k]) : Last(store'[k]).id > x

(* C8: rows of one entity have pairwise distinct identities; every         *)
(* successful create appends a row whose identity is greater than every    *)
(* identity assigned before for that entity, also when a row of the same   *)
(* content is already stored.                                              *)
C8_Identities ==
    /\ [](\A k \in 1..5 : IdsDistinct(store[k]))
    /\ [][/\ \A k \in 1..5 : FreshIdentity(k)
          /\ (resp'.op \in CreateOps /\ resp'.status = 200)
             => Len(store'[TableIndex(resp'.op)])
                  = Len(store[TableIndex(resp'.op)]) + 1]_vars

C8_Witness ==
    /\ Len(devices) = 2
    /\ Project(devices[1], DeviceCreateFields)
         = Project(devices[2], DeviceCreateFields)
    /\ devices[1].id < devices[2].id
    /\ resp.op = "create_device"

(* C9: every stored reference names a stored row: Device.owner_id a User,  *)
(* SecurityEvent.device_id a Device, Feedback.user_id a User,              *)
(* DeviceUsage.device_id and user_id a Device and a User.                  *)
C9_ReferencesExist ==
    /\ \A i \in 1..Len(devices) : devices[i].owner_id \in Ids(users)
    /\ \A i \in 1..Len(security_events) :
         security_events[i].device_id \in Ids(devices)
    /\ \A i \in 1..Len(feedback) : feedback[i].user_id \in Ids(users)
    /\ \A i \in 1..Len(device_usage) :
         /\ device_usage[i].device_id \in Ids(devices)
         /\ device_usage[i].user_id \in Ids(users)

InsertsOneRow ==
    LET k == TableIndex(resp'.op)
    IN  /\ Len(store'[k]) = Len(store[k]) + 1
        /\ SubSeq(store'[k], 1, Len(store[k])) = store[k]
        /\ \A m \in 1..5 : m # k => store'[m] = store[m]

(* C10: a successful create inserts exactly one row, leaves the  *)
(* other rows unchanged and returns the persisted row including its        *)
(* identity.                                                               *)
C10_ReturnsPersistedRow ==
    [][(resp'.op \in CreateOps /\ resp'.status = 200)
       => /\ InsertsOneRow
          /\ resp'.body = <<Last(store'[TableIndex(resp'.op)])>>]_vars

(* What the create handlers answer instead: the persisted row reduced to   *)
(* the fields of the create schema (response_model), which carries no      *)
(* identity.                                                               *)
CreateAnswersCreateSchema ==
    [][(resp'.op \in CreateOps /\ resp'.status = 200)
       => /\ InsertsOneRow
          /\ Len(resp'.body) = 1
          /\ DOMAIN resp'.body[1] = DOMAIN resp'.arg
          /\ "id" \notin DOMAIN resp'.body[1]
          /\ \A f \in DOMAIN resp'.body[1] :
               resp'.body[1][f] = Last(store'[TableIndex(resp'.op)])[f]]_vars
====
